---------------------------- MODULE Spec2Model ----------------------------
(***************************************************************************)
(* PageRank (src/PSETs/PSET2/pagerank/pagerank.py): the transition model,  *)
(* the weighted sampler (cdf / choice), the sampling estimator and the     *)
(* iterative solver.                                                       *)
(*                                                                         *)
(* Arithmetic.  The transition model, the sampler and the sampling         *)
(* estimator are modelled over exact rationals <<numerator, denominator>>  *)
(* (the reals the Python floats stand for).  The iterative solver runs     *)
(* many sweeps, so its ranks are held as integer multiples of 1/Unit and   *)
(* every division rounds to the nearest multiple, as a float division      *)
(* rounds to the nearest float.  The sampler is modelled a second time     *)
(* over binary floating point with a MantBits-bit significand, where the   *)
(* rounding of sums and quotients is what is examined; there the built-in  *)
(* sum adds either left to right (CPython before 3.12) or with Neumaier's  *)
(* compensation (CPython 3.12 and later).  np.float is the built-in float  *)
(* (NumPy before 1.24).                                                    *)
(***************************************************************************)
EXTENDS Integers, Sequences, FiniteSets, TLC

VARIABLES
    corpus,          \* dict: page -> set of linked pages (crawl's result)
    damping_factor,  \* rational in (0,1)
    page,            \* the current page (transition_model's argument, the walk's position)
    model,           \* the dict transition_model returned
    population,      \* choice's first argument
    weights,         \* choice's second argument
    x,               \* the value random.random() returned
    chosen,          \* what choice returned (or the exception it raised)
    n,               \* sample_pagerank's n
    i,               \* sample_pagerank's loop index: steps done
    counts,          \* sample_pagerank's defaultdict(int)
    prev_pagerank,   \* iterate_pagerank's table of the previous sweep
    next_pagerank,   \* iterate_pagerank's renormalised table of the last sweep
    sweeps,          \* sweeps of iterate_pagerank's loop done (capped at MaxSweeps)
    ranks,           \* the table sample_pagerank / iterate_pagerank returned
    arith,           \* the arithmetic of the run: exact, or floats with the
                     \* interpreter's built-in sum adding sequentially or compensated
    pc               \* position in the function being run

vars == <<corpus, damping_factor, page, model, population, weights, x, chosen,
          n, i, counts, prev_pagerank, next_pagerank, sweeps, ranks, arith, pc>>

None == "None"

\* a dict not built yet
NoTable == <<>>

----------------------------------------------------------------------------
(* Bounds of the model. *)

\* corpora of the transition model and of the iterative solver have 1..MaxPages pages
MaxPages == 3

\* choice is tried on populations of 1..MaxLen elements
MaxLen == 3

\* integer weights tried are 0..MaxWeight
MaxWeight == 2

\* exact draws of random.random() are the multiples of 1/DrawGrid in [0,1)
DrawGrid == 12

\* corpora of the sampling estimator have 1..MaxWalkPages pages
MaxWalkPages == 2

\* sample_pagerank is run with n in 1..MaxSamples
MaxSamples == 2

\* the iterative solver's ranks are multiples of 1/Unit
Unit == 32768

\* the sweep counter stops counting at MaxSweeps
MaxSweeps == 64

\* bits of the significand of the modelled binary floats (53 in a Python float)
MantBits == 3

----------------------------------------------------------------------------
(* Exact rationals: <<num, den>> with den > 0, in lowest terms. *)

Abs(a) == IF a < 0 THEN -a ELSE a

RECURSIVE GCD(_, _)
GCD(a, b) == IF b = 0 THEN a ELSE GCD(b, a % b)

Rat(num, den) ==
    LET g == GCD(Abs(num), den) IN <<num \div g, den \div g>>

RAdd(a, b) == Rat(a[1] * b[2] + b[1] * a[2], a[2] * b[2])
RSub(a, b) == Rat(a[1] * b[2] - b[1] * a[2], a[2] * b[2])
RMul(a, b) == Rat(a[1] * b[1], a[2] * b[2])
\* a / b for b > 0
RDiv(a, b) == Rat(a[1] * b[2], a[2] * b[1])
RLess(a, b) == a[1] * b[2] < b[1] * a[2]
RInt(k) == <<k, 1>>

RECURSIVE RSumSet(_, _)
\* the sum of f over the set S
RSumSet(f, S) ==
    IF S = {} THEN RInt(0)
    ELSE LET e == CHOOSE e \in S : TRUE IN RAdd(f[e], RSumSet(f, S \ {e}))

RECURSIVE SumSet(_, _)
\* the sum of the integer function f over the set S
SumSet(f, S) ==
    IF S = {} THEN 0
    ELSE LET e == CHOOSE e \in S : TRUE IN f[e] + SumSet(f, S \ {e})

----------------------------------------------------------------------------
(* Program constants. *)

DAMPING == <<17, 20>>          \* 0.85
EPSILON == <<1, 1000>>         \* 0.001

\* dampings tried: the program's own and one other in (0,1)
Dampings == {DAMPING, <<1, 2>>}

----------------------------------------------------------------------------
(* crawl: the corpora it can return.  Keys are the .html files; a page's   *)
(* links exclude the page itself and every target outside the corpus.      *)

PageNames == <<"A", "B", "C", "D", "E">>

Keys(k) == {PageNames[j] : j \in 1..k}

crawl(k) ==
    {c \in [Keys(k) -> SUBSET Keys(k)] : \A p \in Keys(k) : p \notin c[p]}

Corpora(maxPages) == UNION {crawl(k) : k \in 1..maxPages}

----------------------------------------------------------------------------
(* transition_model *)

\* `direct_links == {}`: direct_links is a set and {} is the empty dict; a set and
\* a dict never compare equal in Python, whatever they hold.
EqualsEmptyDict(direct_links) == FALSE

\* transition_model with the damping share not divided among the links
transition_model_undivided(c, pg, damping) ==
    LET all_pages    == DOMAIN c
        direct_links == c[pg]
        rest         == all_pages \ direct_links
        addition     == RDiv(RSub(RInt(1), damping), RInt(Cardinality(all_pages)))
    IN  [p \in direct_links \cup rest |->
            RAdd(IF p \in rest THEN RInt(0) ELSE damping, addition)]

transition_model(c, pg, damping) ==
    LET all_pages    == DOMAIN c
        direct_links == c[pg]
        N            == Cardinality(all_pages)
    IN  IF EqualsEmptyDict(direct_links)
        THEN [p \in all_pages |-> RDiv(RInt(1), RInt(N))]
        ELSE LET L == Cardinality(direct_links)
                 \* damping * ones(L) / L, zipped with direct_links (empty when L = 0)
                 direct  == [p \in direct_links |-> RDiv(damping, RInt(L))]
                 rest    == all_pages \ direct_links
                 output  == [p \in direct_links \cup rest |->
                                IF p \in rest THEN RInt(0) ELSE direct[p]]
                 addition == RDiv(RSub(RInt(1), damping), RInt(N))
             IN  [p \in DOMAIN output |-> RAdd(output[p], addition)]

----------------------------------------------------------------------------
(* Specification of transition_model as a function: the arguments are      *)
(* drawn, one call is made.                                                *)

Idle ==
    /\ model = NoTable /\ population = <<>> /\ weights = <<>> /\ x = None
    /\ chosen = None /\ n = 0 /\ i = 0 /\ counts = <<>>
    /\ prev_pagerank = NoTable /\ next_pagerank = NoTable /\ sweeps = 0
    /\ ranks = NoTable

InitTransition ==
    /\ corpus \in Corpora(MaxPages)
    /\ damping_factor \in Dampings
    /\ page \in DOMAIN corpus
    /\ Idle
    /\ arith = "exact"
    /\ pc = "call"

CallTransition ==
    /\ pc = "call"
    /\ model' = transition_model(corpus, page, damping_factor)
    /\ pc' = "done"
    /\ UNCHANGED <<corpus, damping_factor, page, population, weights, x, chosen,
                   n, i, counts, prev_pagerank, next_pagerank, sweeps, ranks, arith>>

NextTransition == CallTransition

SpecTransition == InitTransition /\ [][NextTransition]_vars

\* C1: transition_model returns exactly one entry per corpus page, every weight
\* non-negative, the weights summing to 1 (dangling pages included).
C1_Distribution ==
    pc = "done" =>
        /\ DOMAIN model = DOMAIN corpus
        /\ \A p \in DOMAIN model : model[p][1] >= 0
        /\ RSumSet(model, DOMAIN model) = RInt(1)

\* C2: for a page without outgoing links transition_model returns the uniform
\* distribution, 1/N for each of the N corpus pages.
C2_DanglingUniform ==
    (pc = "done" /\ corpus[page] = {}) =>
        \A p \in DOMAIN corpus : model[p] = Rat(1, Cardinality(DOMAIN corpus))

\* C3: for a page with L >= 1 links in a corpus of N pages, each linked page gets
\* damping/L + (1-damping)/N, every other page (1-damping)/N, and so each linked
\* page weighs strictly more than each page not linked.
C3_LinkedWeights ==
    (pc = "done" /\ corpus[page] # {}) =>
        LET L  == Cardinality(corpus[page])
            N  == Cardinality(DOMAIN corpus)
            dn == damping_factor[1]
            dd == damping_factor[2]
        IN  /\ \A p \in corpus[page] :
                  model[p][1] * (dd * L * N) = model[p][2] * (dn * N + (dd - dn) * L)
            /\ \A q \in DOMAIN corpus \ corpus[page] :
                  model[q][1] * (dd * N) = model[q][2] * (dd - dn)
            /\ \A p \in corpus[page], q \in DOMAIN corpus \ corpus[page] :
                  RLess(model[q], model[p])

C3_Witness ==
    /\ pc = "done"
    /\ Cardinality(corpus[page]) = 2
    /\ damping_factor = DAMPING
    /\ model[page] = Rat(1, 20)
    /\ \A p \in corpus[page] : model[p] = Rat(19, 40)

----------------------------------------------------------------------------
(* Binary floating point with a MantBits-bit significand, round to nearest, *)
(* ties to even; no overflow or underflow.  A float is the rational it     *)
(* denotes.                                                                *)

Pow2(e) == IF e >= 0 THEN <<2 ^ e, 1>> ELSE <<1, 2 ^ (0 - e)>>

RAbs(a) == <<Abs(a[1]), a[2]>>
RNeg(a) == <<0 - a[1], a[2]>>

RECURSIVE Scaled(_, _)
\* <<q / 2^e', e'>> with 2^(MantBits-1) <= q / 2^e' < 2^MantBits, for q > 0
Scaled(q, e) ==
    IF RLess(q, RInt(2 ^ (MantBits - 1))) THEN Scaled(RMul(q, RInt(2)), e - 1)
    ELSE IF ~RLess(q, RInt(2 ^ MantBits)) THEN Scaled(RDiv(q, RInt(2)), e + 1)
    ELSE <<q, e>>

\* q >= 0 rounded to the nearest integer, a tie to the even one
RoundEven(q) ==
    LET m    == q[1] \div q[2]
        rem2 == 2 * (q[1] - m * q[2])          \* twice the remainder, over q[2]
    IN  IF rem2 > q[2] \/ (rem2 = q[2] /\ m % 2 = 1) THEN m + 1 ELSE m

\* the float nearest to sc[1] * 2^sc[2]
FlScaled(sc) == RMul(RInt(RoundEven(sc[1])), Pow2(sc[2]))

\* the float nearest to the rational q
Fl(q) ==
    IF q[1] = 0 THEN RInt(0)
    ELSE IF q[1] < 0 THEN RNeg(FlScaled(Scaled(RAbs(q), 0)))
    ELSE FlScaled(Scaled(q, 0))

\* a + b, a - b, a / b in the run's arithmetic
fadd(a, b, ar) == IF ar = "exact" THEN RAdd(a, b) ELSE Fl(RAdd(a, b))
fsub(a, b, ar) == IF ar = "exact" THEN RSub(a, b) ELSE Fl(RSub(a, b))
fdiv(a, b, ar) == IF ar = "exact" THEN RDiv(a, b) ELSE Fl(RDiv(a, b))

\* The built-in sum once its result is a float, in CPython 3.12 and later: floats
\* are added with Neumaier's compensation.  f is the running sum, c the
\* compensation, v the next item, t = f + v.
NeumaierTerm(f, v, t) ==
    IF ~RLess(RAbs(f), RAbs(v))
    THEN fadd(fsub(f, t, "float"), v, "float")
    ELSE fadd(fsub(v, t, "float"), f, "float")

NeumaierPair(f, c, v, t) == <<t, fadd(c, NeumaierTerm(f, v, t), "float")>>

NeumaierStep(st, v) == NeumaierPair(st[1], st[2], v, fadd(st[1], v, "float"))

\* the compensation is added when the items are exhausted
NeumaierEnd(st) == IF st[2][1] # 0 THEN fadd(st[1], st[2], "float") ELSE st[1]

Neumaier(w) ==
    LET st[j \in 1..Len(w)] ==
            IF j = 1 THEN <<w[1], RInt(0)>> ELSE NeumaierStep(st[j - 1], w[j])
    IN  NeumaierEnd(st[Len(w)])

\* cumsum after the first k turns of `cumsum += w`: w[1] + ... + w[k] added left
\* to right from 0
Cumsum(w, ar, k) ==
    LET cs[j \in 0..Len(w)] == IF j = 0 THEN RInt(0) ELSE fadd(cs[j - 1], w[j], ar)
    IN  cs[k]

\* sum(weights): starts from the int 0, so the first addition is exact
sum(w, ar) ==
    IF w = <<>> THEN RInt(0)
    ELSE IF ar = "compensated" THEN Neumaier(w)
    ELSE Cumsum(w, ar, Len(w))

----------------------------------------------------------------------------
(* cdf, bisect.bisect and choice *)

\* result.append(cumsum / total)
cdf_entry(w, ar, total, j) == fdiv(Cumsum(w, ar, j), total, ar)

\* the list cdf returns; total is not zero
cdf(w, ar) == [j \in 1..Len(w) |-> cdf_entry(w, ar, sum(w, ar), j)]

RECURSIVE bisect_loop(_, _, _, _)
bisect_loop(a, v, lo, hi) ==
    IF lo < hi
    THEN LET mid == (lo + hi) \div 2
         IN  IF RLess(v, a[mid + 1])        \* a[mid], list indices start at 0
             THEN bisect_loop(a, v, lo, mid)
             ELSE bisect_loop(a, v, mid + 1, hi)
    ELSE lo

RECURSIVE bisect_left_loop(_, _, _, _)
bisect_left_loop(a, v, lo, hi) ==
    IF lo < hi
    THEN LET mid == (lo + hi) \div 2
         IN  IF RLess(a[mid + 1], v)
             THEN bisect_left_loop(a, v, mid + 1, hi)
             ELSE bisect_left_loop(a, v, lo, mid)
    ELSE lo

\* bisect.bisect_left in place of bisect.bisect
bisect_left(a, v) == bisect_left_loop(a, v, 0, Len(a))

\* bisect.bisect(a, v) = bisect_right: an index in 0..len(a)
bisect(a, v) == bisect_loop(a, v, 0, Len(a))

\* return population[idx]
subscript(pop, idx) == IF idx < Len(pop) THEN pop[idx + 1] ELSE "IndexError"

\* choice(population, weights) when random.random() returns v
choice(pop, w, v, ar) ==
    IF Len(pop) # Len(w) THEN "AssertionError"
    ELSE IF w # <<>> /\ sum(w, ar)[1] = 0 THEN "ZeroDivisionError"
    ELSE subscript(pop, bisect(cdf(w, ar), v))

----------------------------------------------------------------------------
(* Specifications of choice as a function: the arguments and the draw are  *)
(* chosen, one call is made.                                               *)

Elements == <<"a", "b", "c", "d", "e">>

IdleChoice ==
    /\ corpus = None /\ damping_factor = None /\ page = None /\ model = NoTable
    /\ chosen = None /\ n = 0 /\ i = 0 /\ counts = <<>>
    /\ prev_pagerank = NoTable /\ next_pagerank = NoTable /\ sweeps = 0 /\ ranks = NoTable

\* random.random() in exact arithmetic: a point of the grid in [0,1)
Draws == {Rat(k, DrawGrid) : k \in 0..(DrawGrid - 1)}

InitChoice ==
    /\ IdleChoice
    /\ arith = "exact"
    /\ \E len \in 1..MaxLen :
          /\ population = SubSeq(Elements, 1, len)
          /\ weights \in [1..len -> {RInt(k) : k \in 0..MaxWeight}]
    /\ x \in Draws
    /\ pc = "call"

\* floats of the form 2^-j
FloatWeights == {Pow2(0 - j) : j \in 0..MantBits}

\* random.random() as a float: a multiple of 2^-MantBits in [0,1)
FloatDraws == {Rat(k, 2 ^ MantBits) : k \in 0..(2 ^ MantBits - 1)}

InitChoiceFloat ==
    /\ IdleChoice
    /\ arith \in {"sequential", "compensated"}
    /\ \E len \in 1..MaxLen :
          /\ population = SubSeq(Elements, 1, len)
          /\ weights \in [1..len -> FloatWeights]
    /\ x \in FloatDraws
    /\ pc = "call"

CallChoice ==
    /\ pc = "call"
    /\ chosen' = choice(population, weights, x, arith)
    /\ pc' = "done"
    /\ UNCHANGED <<corpus, damping_factor, page, model, population, weights, x,
                   n, i, counts, prev_pagerank, next_pagerank, sweeps, ranks, arith>>

NextChoice == CallChoice

SpecChoice == InitChoice /\ [][NextChoice]_vars

SpecChoiceFloat == InitChoiceFloat /\ [][NextChoice]_vars

RECURSIVE IntPrefix(_, _)
\* w[1] + ... + w[j] for integer weights held as rationals k/1
IntPrefix(w, j) == IF j = 0 THEN 0 ELSE IntPrefix(w, j - 1) + w[j][1]

\* cumulative value j (running sum / total) is strictly greater than the draw v
Above(w, j, v) == IntPrefix(w, j) * v[2] > v[1] * IntPrefix(w, Len(w))

\* C4: with a positive weight total, choice returns population[j] for the smallest
\* j whose cumulative value is strictly greater than the draw; an element of weight
\* 0 is never returned, and population [a,b] with weights [1,0] always yields a.
C4_FirstAbove ==
    (pc = "done" /\ IntPrefix(weights, Len(weights)) > 0) =>
        /\ \E j \in 1..Len(population) :
              /\ chosen = population[j]
              /\ Above(weights, j, x)
              /\ \A k \in 1..(j - 1) : ~Above(weights, k, x)
              /\ weights[j][1] > 0
        /\ (weights = <<RInt(1), RInt(0)>> => chosen = "a")

C4_Witness ==
    /\ pc = "done"
    /\ weights = <<RInt(0), RInt(1), RInt(0)>>
    /\ x = RInt(0)
    /\ chosen = "b"

\* C5: choice never indexes out of bounds: it returns an element of the
\* population, and when the draw is not below the last cumulative value it returns
\* the last element.
C5_Clamped ==
    pc = "done" =>
        /\ \E j \in 1..Len(population) : chosen = population[j]
        /\ (~RLess(x, cdf(weights, arith)[Len(weights)])
               => chosen = population[Len(population)])

----------------------------------------------------------------------------
(* sample_pagerank *)

\* the orders in which a set can be iterated
Perms(S) ==
    {s \in [1..Cardinality(S) -> S] : \A a, b \in 1..Cardinality(S) : a # b => s[a] # s[b]}

InitSample ==
    /\ corpus \in Corpora(MaxWalkPages)
    /\ damping_factor \in Dampings
    /\ n \in 1..MaxSamples
    /\ page = None /\ model = NoTable /\ population = <<>> /\ weights = <<>>
    /\ x = None /\ chosen = None /\ i = 0 /\ counts = <<>>
    /\ prev_pagerank = NoTable /\ next_pagerank = NoTable /\ sweeps = 0 /\ ranks = NoTable
    /\ arith = "exact"
    /\ pc = "start"

\* the walk started with the starting page already counted as a visit
StartCounted ==
    /\ pc = "start"
    /\ \E start \in DOMAIN corpus : page' = start /\ counts' = (start :> 1)
    /\ pc' = "loop"
    /\ UNCHANGED <<corpus, damping_factor, model, population, weights, x, chosen,
                   n, i, prev_pagerank, next_pagerank, sweeps, ranks, arith>>

\* keys = list(corpus.keys()); page = random.choice(keys); counts = defaultdict(int)
Start ==
    /\ pc = "start"
    /\ page' \in DOMAIN corpus
    /\ counts' = <<>>
    /\ pc' = "loop"
    /\ UNCHANGED <<corpus, damping_factor, model, population, weights, x, chosen,
                   n, i, prev_pagerank, next_pagerank, sweeps, ranks, arith>>

\* one turn of the loop.  The dict transition_model builds lists the direct links
\* first and the other pages after them, each group in the set's iteration order,
\* which is any order.
Step ==
    /\ pc = "loop"
    /\ i < n
    /\ \E first \in Perms(corpus[page]),
          second \in Perms(DOMAIN corpus \ corpus[page]),
          v \in Draws :
          LET m    == transition_model(corpus, page, damping_factor)
              keys == first \o second
              vals == [j \in 1..Len(keys) |-> m[keys[j]]]
              drawn == choice(keys, vals, v, arith)
          IN  /\ drawn \in DOMAIN corpus
              /\ page' = drawn
              /\ counts' = IF drawn \in DOMAIN counts
                           THEN [counts EXCEPT ![drawn] = @ + 1]
                           ELSE counts @@ (drawn :> 1)
    /\ i' = i + 1
    /\ UNCHANGED <<corpus, damping_factor, model, population, weights, x, chosen,
                   n, prev_pagerank, next_pagerank, sweeps, ranks, arith, pc>>

\* return {k: float(v)/float(n) for (k,v) in counts.items()}
Return ==
    /\ pc = "loop"
    /\ i = n
    /\ ranks' = [k \in DOMAIN counts |-> Rat(counts[k], n)]
    /\ pc' = "done"
    /\ UNCHANGED <<corpus, damping_factor, page, model, population, weights, x, chosen,
                   n, i, counts, prev_pagerank, next_pagerank, sweeps, arith>>

Next == Start \/ Step \/ Return

Spec == InitSample /\ [][Next]_vars

\* a page's visit count, 0 for a page the defaultdict does not hold
CountOf(c, q) == IF q \in DOMAIN c THEN c[q] ELSE 0

C6_Tables ==
    /\ DOMAIN counts \subseteq DOMAIN corpus
    /\ \A k \in DOMAIN counts : counts[k] >= 1
    /\ SumSet(counts, DOMAIN counts) = i
    /\ pc = "done" =>
          /\ i = n
          /\ DOMAIN ranks = {k \in DOMAIN corpus : CountOf(counts, k) >= 1}
          /\ \A k \in DOMAIN ranks : ranks[k][1] * n = counts[k] * ranks[k][2]
          /\ RSumSet(ranks, DOMAIN ranks) = RInt(1)

C6_Steps ==
    /\ (pc = "start" /\ pc' = "loop") => counts' = <<>>
    /\ i' # i =>
          /\ i' = i + 1
          /\ page' \in DOMAIN corpus
          /\ CountOf(counts', page') = CountOf(counts, page') + 1
          /\ \A q \in (DOMAIN corpus \cup DOMAIN counts') \ {page'} :
                CountOf(counts', q) = CountOf(counts, q)

----------------------------------------------------------------------------
(* iterate_pagerank.  Ranks are integers: the multiples of 1/Unit. *)

\* a / b rounded to the nearest integer, for a >= 0 and b > 0
RoundDiv(a, b) == (a + b \div 2) \div b

\* np.ones(len(keys)) without the division by len(keys)
InitialRanksOnes(c) == [k \in DOMAIN c |-> Unit]

\* dict(zip(keys, np.ones(len(keys)) / float(len(keys))))
InitialRanks(c) == [k \in DOMAIN c |-> RoundDiv(Unit, Cardinality(DOMAIN c))]

\* reverse_corpus: for each page the pages that link to it
reverse_corpus(c) == [k \in DOMAIN c |-> {q \in DOMAIN c : k \in c[q]}]

\* random_val = (1 - damping_factor) / float(len(keys))
random_val(c, damping) ==
    RoundDiv((damping[2] - damping[1]) * Unit, damping[2] * Cardinality(DOMAIN c))

\* the new ranks of one sweep before normalisation, all computed from prev
Update(c, damping, prev) ==
    [k \in DOMAIN prev |->
        LET contribution == [q \in reverse_corpus(c)[k] |->
                                RoundDiv(prev[q], Cardinality(c[q]))]
            tmp == SumSet(contribution, reverse_corpus(c)[k])
        IN  random_val(c, damping) + RoundDiv(damping[1] * tmp, damping[2])]

\* the sweep's table left as computed, not divided by its sum
Unnormalized(t) == t

\* summ = sum(next_pagerank.values()); {k: v / summ}
Normalize(t) ==
    LET summ == SumSet(t, DOMAIN t)
    IN  [k \in DOMAIN t |-> RoundDiv(t[k] * Unit, summ)]

\* is_converged with the comparison turned round
is_converged_inverted(prev_pr, next_pr) ==
    \A k \in DOMAIN prev_pr :
        Abs(next_pr[k] - prev_pr[k]) * EPSILON[2] >= EPSILON[1] * Unit

\* all(abs(next_pr[k] - v) <= EPSILON for (k, v) in prev_pr.items())
is_converged(prev_pr, next_pr) ==
    \A k \in DOMAIN prev_pr :
        Abs(next_pr[k] - prev_pr[k]) * EPSILON[2] <= EPSILON[1] * Unit

InitIterate ==
    /\ corpus \in Corpora(MaxPages)
    /\ damping_factor \in Dampings
    /\ page = None /\ model = NoTable /\ population = <<>> /\ weights = <<>>
    /\ x = None /\ chosen = None /\ n = 0 /\ i = 0 /\ counts = <<>>
    /\ prev_pagerank = NoTable /\ next_pagerank = NoTable /\ sweeps = 0 /\ ranks = NoTable
    /\ arith = "fixed"
    /\ pc = "start"

\* lines 129-135: the initial table (the reverse index and random_val are
\* functions of the corpus, computed where they are used)
Begin ==
    /\ pc = "start"
    /\ prev_pagerank' = InitialRanks(corpus)
    /\ pc' = "loop"
    /\ UNCHANGED <<corpus, damping_factor, page, model, population, weights, x, chosen,
                   n, i, counts, next_pagerank, sweeps, ranks, arith>>

\* one turn of `while True`: the sweep, the normalisation, the test
Sweep ==
    /\ pc = "loop"
    /\ LET nxt == Normalize(Update(corpus, damping_factor, prev_pagerank))
       IN  /\ next_pagerank' = nxt
           /\ IF is_converged(prev_pagerank, nxt)
              THEN pc' = "return" /\ prev_pagerank' = prev_pagerank
              ELSE pc' = "loop" /\ prev_pagerank' = nxt
    /\ sweeps' = IF sweeps < MaxSweeps THEN sweeps + 1 ELSE sweeps
    /\ UNCHANGED <<corpus, damping_factor, page, model, population, weights, x, chosen,
                   n, i, counts, ranks, arith>>

\* return prev_pagerank
ReturnIterate ==
    /\ pc = "return"
    /\ ranks' = prev_pagerank
    /\ pc' = "done"
    /\ UNCHANGED <<corpus, damping_factor, page, model, population, weights, x, chosen,
                   n, i, counts, prev_pagerank, next_pagerank, sweeps, arith>>

NextIterate == Begin \/ Sweep \/ ReturnIterate

SpecIterate == InitIterate /\ [][NextIterate]_vars

\* C7: iterate_pagerank returns the renormalised table of the last sweep, the one
\* that passed the convergence test, not the table of the sweep before it.
C7_ReturnsLastSweep == pc = "done" => ranks = next_pagerank

\* C8: for every corpus and damping the loop reaches a sweep that passes the
\* convergence test and iterate_pagerank returns.
\* Stated as bounded progress: the loop is left before MaxSweeps sweeps are done.
C8_Terminates == pc = "loop" => sweeps < MaxSweeps

Dangling(c) == {p \in DOMAIN c : c[p] = {}}

C8_Witness ==
    /\ pc = "done"
    /\ sweeps >= 2
    /\ Dangling(corpus) # {}
    /\ Dangling(corpus) # DOMAIN corpus

\* the corpus is one directed cycle through all of its (two or more) pages
IsCycle(c) ==
    LET N == Cardinality(DOMAIN c)
        walk[j \in 0..N] == IF j = 0 THEN PageNames[1]
                            ELSE CHOOSE q \in c[walk[j - 1]] : TRUE
    IN  /\ N >= 2
        /\ \A p \in DOMAIN c : Cardinality(c[p]) = 1
        /\ {walk[j] : j \in 0..(N - 1)} = DOMAIN c
        /\ walk[N] = PageNames[1]

\* r is the multiple of 1/Unit nearest to 1/N
Uniform(r, N) == 2 * Abs(N * r - Unit) <= N

\* C9: on a corpus that is a single directed cycle iterate_pagerank stops at its
\* first sweep and returns the uniform table, whatever the damping.
C9_CycleUniform ==
    IsCycle(corpus) =>
        /\ pc = "loop" => sweeps = 0
        /\ pc = "done" =>
              /\ DOMAIN ranks = DOMAIN corpus
              /\ \A p \in DOMAIN corpus : Uniform(ranks[p], Cardinality(DOMAIN corpus))

C9_Witness ==
    /\ pc = "done"
    /\ corpus = [p \in {"A", "B", "C"} |->
                    IF p = "A" THEN {"B"} ELSE IF p = "B" THEN {"C"} ELSE {"A"}]
    /\ damping_factor = DAMPING
    /\ sweeps = 1
    /\ \A p \in DOMAIN corpus : ranks[p] = RoundDiv(Unit, 3)

\* t has one entry per corpus page, each in [0,1], summing to 1 to within the
\* rounding of its entries (half a unit each)
RankTable(t) ==
    /\ DOMAIN t = DOMAIN corpus
    /\ \A k \in DOMAIN t : 0 <= t[k] /\ t[k] <= Unit
    /\ 2 * Abs(SumSet(t, DOMAIN t) - Unit) <= Cardinality(DOMAIN corpus)

\* C10: the table at the start of every sweep, the renormalised table a sweep
\* produces and the table returned each have one entry per corpus page, values in
\* [0,1] and sum 1, dangling pages or not.
C10_Normalised ==
    /\ pc \in {"loop", "return", "done"} => RankTable(prev_pagerank)
    /\ sweeps >= 1 => RankTable(next_pagerank)
    /\ pc = "done" => RankTable(ranks)

C10_Witness ==
    /\ pc = "done"
    /\ sweeps >= 2
    /\ Dangling(corpus) # {}
    /\ \E p \in DOMAIN corpus : ranks[p] # RoundDiv(Unit, Cardinality(DOMAIN corpus))
    /\ \E p \in DOMAIN corpus : Cardinality(corpus[p]) = 2

=============================================================================
